---- MODULE Spec2Model ----
(***************************************************************************)
(* The auto partitioning module of anaconda                                *)
(* (pyanaconda/modules/storage/partitioning/automatic/automatic_module.py) *)
(* as a state machine.  The storage engine (blivet) and the structures the *)
(* module imports (PartitioningRequest, Signal, the kickstart data) are    *)
(* not part of the module's source; they are modelled by their interface.  *)
(***************************************************************************)
EXTENDS Integers, Sequences, FiniteSets, TLC

VARIABLES
    storage,    \* self.storage: the engine's device graph
    last,       \* the last device operation: its arguments, outcome and engine calls
    enabled,    \* self._enabled
    request,    \* self._request: a reference to a request object of the heap
    heap,       \* the request objects, by reference
    task,       \* the task last returned by configure_with_task, with the
                \* value its request had when the task was constructed
    rt,         \* progress of an export / import / export round trip
    note        \* the last module operation: its argument, its result (for
                \* setup_kickstart the data object it has filled in) and the
                \* signals it has emitted

(***************************************************************************)
(* Bounds of the model.                                                    *)
(***************************************************************************)
MaxSize == 4        \* device sizes and shrink targets range over 0..MaxSize
MaxFail == 2        \* an engine failure is injected at call 1..MaxFail (0: none)

(***************************************************************************)
(* The device graph.  sda has three partitions, sda2 carries one device,   *)
(* sdb is a hidden disk, sdx is a name the engine does not know.           *)
(***************************************************************************)
Names == {"sda", "sda1", "sda2", "sda3", "sda5", "sdb", "sdx"}
TreeDevices == {"sda", "sda1", "sda2", "sda3", "sda5"}
HiddenDevices == {"sdb"}
NoDevice == "None"

InitChildren ==
    [n \in Names |->
        IF n = "sda" THEN <<"sda1", "sda2", "sda3">>
        ELSE IF n = "sda2" THEN <<"sda5">>
        ELSE <<>>]

\* The devices the initial graph may mark protected, and the names given to
\* shrink_device (a partition, the hidden disk, the unknown name).
Protectable == {"sda", "sda1", "sda5"}
ShrinkNames == {"sda1", "sdb", "sdx"}

\* The boundary the engine aligns sizes to.
AlignUnit == 4

\* The attributes the engine's devices expose to the queries: sda and sdb are
\* disks with a partition table, sdb's in a format the engine does not
\* support; sda1 and sda2 are partitions, sda2 an extended one; sda3 and sda5
\* are devices of another type; the partitions can be resized.
Disks == {"sda", "sdb"}
PartitionedDevices == {"sda", "sdb"}
SupportedFormats == {"sda", "sda1", "sda2", "sda3", "sda5"}
PartitionDevices == {"sda1", "sda2"}
ExtendedPartitions == {"sda2"}
ResizableDevices == {"sda1", "sda2"}

\* device.format.logical_partitions: what an extended partition still carries.
logical_partitions(g, d) ==
    IF d \in ExtendedPartitions THEN g.children[d] ELSE <<>>

\* device.min_size and device.max_size, in bytes: a device that cannot be
\* resized has its current size as both limits.
min_size(g, d) == IF d \in ResizableDevices THEN 0 ELSE g.size[d]
max_size(g, d) == IF d \in ResizableDevices THEN g.size[d] + AlignUnit ELSE g.size[d]

Range(s) == {s[i] : i \in DOMAIN s}

\* Devices at and below d in the graph g.
RECURSIVE Subtree(_, _)
Subtree(g, d) ==
    {d} \cup UNION {Subtree(g, c) : c \in Range(g.children[d])}

\* devicetree.get_device_by_name(name, hidden=True)
get_device_by_name(g, name, hidden) ==
    IF name \in g.devices THEN name
    ELSE IF hidden /\ name \in g.hidden THEN name
    ELSE NoDevice

\* storage.recursive_remove(device): the engine's cascading remove.
recursive_remove(g, device) ==
    LET gone == Subtree(g, device) IN
    [g EXCEPT !.devices = @ \ gone,
              !.hidden = @ \ gone,
              !.children = [n \in Names |->
                  IF n \in gone THEN <<>>
                  ELSE SelectSeq(@[n], LAMBDA c : c \notin gone)]]

\* device.align_target_size(size): the engine rounds the size to a multiple
\* of the device's boundary, down or up as the device type decides.
align_target_size(size, up) ==
    IF size % AlignUnit = 0 THEN size
    ELSE IF up THEN size + (AlignUnit - (size % AlignUnit))
    ELSE size - (size % AlignUnit)

\* storage.resize_device(device, size)
resize_device(g, device, size) ==
    [g EXCEPT !.size[device] = size]

\* One engine call in the log of an operation.
Call(call, dev, arg, ret, ok) ==
    [call |-> call, dev |-> dev, arg |-> arg, ret |-> ret, ok |-> ok]

\* What an operation leaves behind: the graph, how it ended, its engine calls.
Result(g, outcome, calls) ==
    [storage |-> g, outcome |-> outcome, calls |-> calls]

\* _get_device asking the engine for visible devices only.
get_device_visible(g, name) == get_device_by_name(g, name, FALSE)

\* AutoPartitioningModule._get_device
get_device(g, name) == get_device_by_name(g, name, TRUE)

\* The loop of remove_device: one recursive_remove per device of todo, in
\* order; the call numbered failAt raises and ends the operation.
RECURSIVE RemoveEach(_, _, _, _)
RemoveEach(g, todo, calls, failAt) ==
    IF todo = <<>> THEN Result(g, "ok", calls)
    ELSE IF Len(calls) + 1 = failAt
        THEN Result(g, "EngineError",
                    Append(calls, Call("recursive_remove", Head(todo), 0, 0, FALSE)))
        ELSE RemoveEach(recursive_remove(g, Head(todo)), Tail(todo),
                        Append(calls, Call("recursive_remove", Head(todo), 0, 0, TRUE)),
                        failAt)

\* remove_device without the check of the device's own protection.
remove_device_unchecked(g, device_name, failAt) ==
    LET device == get_device(g, device_name) IN
    IF device = NoDevice THEN Result(g, "UnknownDeviceError", <<>>)
    ELSE IF \E d \in Range(g.children[device]) : g.protected[d]
        THEN RemoveEach(g, SelectSeq(g.children[device], LAMBDA d : ~g.protected[d]),
                        <<>>, failAt)
        ELSE RemoveEach(g, <<device>>, <<>>, failAt)

\* remove_device removing every child, protected or not, in the partial branch.
remove_device_every_child(g, device_name, failAt) ==
    LET device == get_device(g, device_name) IN
    IF device = NoDevice THEN Result(g, "UnknownDeviceError", <<>>)
    ELSE IF g.protected[device] THEN Result(g, "ProtectedDeviceError", <<>>)
    ELSE IF \E d \in Range(g.children[device]) : g.protected[d]
        THEN RemoveEach(g, g.children[device], <<>>, failAt)
        ELSE RemoveEach(g, <<device>>, <<>>, failAt)

\* remove_device removing the children instead of the device in the last branch.
remove_device_children_only(g, device_name, failAt) ==
    LET device == get_device(g, device_name) IN
    IF device = NoDevice THEN Result(g, "UnknownDeviceError", <<>>)
    ELSE IF g.protected[device] THEN Result(g, "ProtectedDeviceError", <<>>)
    ELSE IF \E d \in Range(g.children[device]) : g.protected[d]
        THEN RemoveEach(g, SelectSeq(g.children[device], LAMBDA d : ~g.protected[d]),
                        <<>>, failAt)
        ELSE RemoveEach(g, g.children[device], <<>>, failAt)

\* The loop of remove_device going on after a recursive_remove that raised.
RECURSIVE RemoveEachSwallow(_, _, _, _)
RemoveEachSwallow(g, todo, calls, failAt) ==
    IF todo = <<>> THEN Result(g, "ok", calls)
    ELSE IF Len(calls) + 1 = failAt
        THEN RemoveEachSwallow(g, Tail(todo),
                 Append(calls, Call("recursive_remove", Head(todo), 0, 0, FALSE)),
                 failAt)
        ELSE RemoveEachSwallow(recursive_remove(g, Head(todo)), Tail(todo),
                 Append(calls, Call("recursive_remove", Head(todo), 0, 0, TRUE)),
                 failAt)

\* remove_device catching the engine's errors.
remove_device_swallow(g, device_name, failAt) ==
    LET device == get_device(g, device_name) IN
    IF device = NoDevice THEN Result(g, "UnknownDeviceError", <<>>)
    ELSE IF g.protected[device] THEN Result(g, "ProtectedDeviceError", <<>>)
    ELSE IF \E d \in Range(g.children[device]) : g.protected[d]
        THEN RemoveEachSwallow(g, SelectSeq(g.children[device], LAMBDA d : ~g.protected[d]),
                               <<>>, failAt)
        ELSE RemoveEachSwallow(g, <<device>>, <<>>, failAt)

\* remove_device looking for protected devices in the whole subtree.
remove_device_deep(g, device_name, failAt) ==
    LET device == get_device(g, device_name) IN
    IF device = NoDevice THEN Result(g, "UnknownDeviceError", <<>>)
    ELSE IF g.protected[device] THEN Result(g, "ProtectedDeviceError", <<>>)
    ELSE IF \E d \in Subtree(g, device) \ {device} : g.protected[d]
        THEN RemoveEach(g, SelectSeq(g.children[device], LAMBDA d : ~g.protected[d]),
                        <<>>, failAt)
        ELSE RemoveEach(g, <<device>>, <<>>, failAt)

\* AutoPartitioningModule.remove_device
remove_device(g, device_name, failAt) ==
    LET device == get_device(g, device_name) IN
    IF device = NoDevice THEN Result(g, "UnknownDeviceError", <<>>)
    ELSE IF g.protected[device] THEN Result(g, "ProtectedDeviceError", <<>>)
    ELSE IF \E d \in Range(g.children[device]) : g.protected[d]
        THEN RemoveEach(g, SelectSeq(g.children[device], LAMBDA d : ~g.protected[d]),
                        <<>>, failAt)
        ELSE RemoveEach(g, <<device>>, <<>>, failAt)

\* The engine calls of shrink_device: the size is aligned, then resize_device
\* is called with the size passed; the call numbered failAt raises.
ShrinkCalls(g, device, size, aligned_size, passed, failAt) ==
    LET align_ok == Call("align_target_size", device, size, aligned_size, TRUE) IN
    IF failAt = 1
        THEN Result(g, "EngineError",
                    <<Call("align_target_size", device, size, 0, FALSE)>>)
    ELSE IF failAt = 2
        THEN Result(g, "EngineError",
                    <<align_ok, Call("resize_device", device, passed, 0, FALSE)>>)
    ELSE Result(resize_device(g, device, passed), "ok",
                <<align_ok, Call("resize_device", device, passed, 0, TRUE)>>)

\* shrink_device doing nothing only when the device is strictly smaller.
shrink_device_strict(g, device_name, size, failAt, up) ==
    LET device == get_device(g, device_name)
        aligned_size == align_target_size(size, up)
    IN
    IF device = NoDevice THEN Result(g, "UnknownDeviceError", <<>>)
    ELSE IF g.protected[device] THEN Result(g, "ProtectedDeviceError", <<>>)
    ELSE IF g.size[device] < size THEN Result(g, "ok", <<>>)
    ELSE ShrinkCalls(g, device, size, aligned_size, aligned_size, failAt)

\* shrink_device checking the protection only before the resize.
shrink_device_late_check(g, device_name, size, failAt, up) ==
    LET device == get_device(g, device_name)
        aligned_size == align_target_size(size, up)
    IN
    IF device = NoDevice THEN Result(g, "UnknownDeviceError", <<>>)
    ELSE IF g.size[device] <= size THEN Result(g, "ok", <<>>)
    ELSE IF g.protected[device]
        THEN Result(g, "ProtectedDeviceError",
                    <<Call("align_target_size", device, size, aligned_size, TRUE)>>)
    ELSE ShrinkCalls(g, device, size, aligned_size, aligned_size, failAt)

\* shrink_device resizing to the size it was given, not to the aligned one.
shrink_device_raw(g, device_name, size, failAt, up) ==
    LET device == get_device(g, device_name)
        aligned_size == align_target_size(size, up)
    IN
    IF device = NoDevice THEN Result(g, "UnknownDeviceError", <<>>)
    ELSE IF g.protected[device] THEN Result(g, "ProtectedDeviceError", <<>>)
    ELSE IF g.size[device] <= size THEN Result(g, "ok", <<>>)
    ELSE ShrinkCalls(g, device, size, aligned_size, size, failAt)

\* AutoPartitioningModule.shrink_device
shrink_device(g, device_name, size, failAt, up) ==
    LET device == get_device(g, device_name)
        aligned_size == align_target_size(size, up)
    IN
    IF device = NoDevice THEN Result(g, "UnknownDeviceError", <<>>)
    ELSE IF g.protected[device] THEN Result(g, "ProtectedDeviceError", <<>>)
    ELSE IF g.size[device] <= size THEN Result(g, "ok", <<>>)
    ELSE ShrinkCalls(g, device, size, aligned_size, aligned_size, failAt)

\* What a query returns: flag for the boolean queries, names for
\* get_device_partitions, limits for get_device_size_limits.
Answer(outcome, flag, names, limits) ==
    [outcome |-> outcome, flag |-> flag, names |-> names, limits |-> limits]

UnknownDevice == Answer("UnknownDeviceError", FALSE, <<>>, <<>>)

\* AutoPartitioningModule._is_device_partitioned
is_partitioned(device) ==
    device \in Disks /\ device \in PartitionedDevices /\ device \in SupportedFormats

\* AutoPartitioningModule.is_device_partitioned
is_device_partitioned(g, device_name) ==
    LET device == get_device(g, device_name) IN
    IF device = NoDevice THEN UnknownDevice
    ELSE Answer("ok", is_partitioned(device), <<>>, <<>>)

\* get_device_partitions listing every child that is a partition.
get_device_partitions_flat(g, device_name) ==
    LET device == get_device(g, device_name) IN
    IF device = NoDevice THEN UnknownDevice
    ELSE IF ~is_partitioned(device) THEN Answer("ok", FALSE, <<>>, <<>>)
    ELSE Answer("ok", FALSE,
                SelectSeq(g.children[device], LAMBDA d : d \in PartitionDevices),
                <<>>)

\* AutoPartitioningModule.get_device_partitions
get_device_partitions(g, device_name) ==
    LET device == get_device(g, device_name) IN
    IF device = NoDevice THEN UnknownDevice
    ELSE IF ~is_partitioned(device) THEN Answer("ok", FALSE, <<>>, <<>>)
    ELSE Answer("ok", FALSE,
                SelectSeq(g.children[device],
                          LAMBDA d : /\ d \in PartitionDevices
                                     /\ ~(d \in ExtendedPartitions
                                            /\ logical_partitions(g, d) # <<>>)),
                <<>>)

\* AutoPartitioningModule.is_device_resizable
is_device_resizable(g, device_name) ==
    LET device == get_device(g, device_name) IN
    IF device = NoDevice THEN UnknownDevice
    ELSE Answer("ok", device \in ResizableDevices, <<>>, <<>>)

\* AutoPartitioningModule.get_device_size_limits
get_device_size_limits(g, device_name) ==
    LET device == get_device(g, device_name) IN
    IF device = NoDevice THEN UnknownDevice
    ELSE Answer("ok", FALSE, <<>>, <<min_size(g, device), max_size(g, device)>>)

(***************************************************************************)
(* The partitioning request and the kickstart data.                        *)
(***************************************************************************)
\* pyanaconda.core.constants.DEFAULT_AUTOPART_TYPE (AUTOPART_TYPE_LVM)
DEFAULT_AUTOPART_TYPE == 2

\* None, for a number and for a string of the kickstart data.
KsNone == 0 - 1
StrNone == "None"

\* PartitioningRequest(): a request with every field at its default.
PartitioningRequest ==
    [partitioning_scheme |-> DEFAULT_AUTOPART_TYPE,
     file_system_type |-> "",
     excluded_mount_points |-> <<>>,
     encrypted |-> FALSE,
     passphrase |-> "",
     cipher |-> "",
     luks_version |-> "",
     pbkdf |-> "",
     pbkdf_memory |-> 0,
     pbkdf_time |-> 0,
     pbkdf_iterations |-> 0,
     escrow_certificate |-> "",
     backup_passphrase_enabled |-> FALSE]

\* A kickstart data object nothing was written to (data.autopart of a new handler).
BlankData ==
    [autopart |-> FALSE,
     type |-> KsNone,
     fstype |-> "",
     noboot |-> FALSE,
     nohome |-> FALSE,
     noswap |-> FALSE,
     encrypted |-> FALSE,
     passphrase |-> "",
     cipher |-> "",
     luks_version |-> StrNone,
     pbkdf |-> StrNone,
     pbkdf_memory |-> KsNone,
     pbkdf_time |-> KsNone,
     pbkdf_iterations |-> KsNone,
     escrowcert |-> "",
     backuppassphrase |-> FALSE]

\* The truth value Python gives a string (or None).
Truthy(s) == s # "" /\ s # StrNone

\* The references of the heap, and the roots that keep an object alive.
Oids == {1, 2, 3}
NoTask == [request |-> 0, snapshot |-> PartitioningRequest]
Roots(m) == {m.request} \cup (IF m.task = NoTask THEN {} ELSE {m.task.request})

\* A reference no live object uses: where a new object is created.
Alloc(m) == CHOOSE o \in Oids \ Roots(m) : \A p \in Oids \ Roots(m) : o <= p

\* Objects nothing refers to any more are dropped.
Collect(m) ==
    [m EXCEPT !.heap = [o \in Oids |->
        IF o \in Roots(m) THEN m.heap[o] ELSE PartitioningRequest]]

\* The observers connected to each signal of the module.
NumObservers == 2

\* Signal.emit(): the observers run inside the call, in the order they were
\* connected, and each reads the getters of the module.
Emit(m, signal) ==
    [m EXCEPT !.emitted = @ \o [i \in 1..NumObservers |->
        [signal |-> signal, observer |-> i,
         enabled |-> m.enabled, request |-> m.heap[m.request]]]]

\* set_enabled emitting the signal before it stores the value.
set_enabled_emit_first(m, value) ==
    [Emit(m, "enabled_changed") EXCEPT !.enabled = value]

\* AutoPartitioningModule.set_enabled
set_enabled(m, value) ==
    Emit([m EXCEPT !.enabled = value], "enabled_changed")

\* AutoPartitioningModule.set_request
set_request(m, oid) ==
    Emit([m EXCEPT !.request = oid], "request_changed")

\* The request process_kickstart builds from the kickstart data.
RequestOf(data) ==
    LET r0 == PartitioningRequest
        r1 == IF data.type # KsNone
              THEN [r0 EXCEPT !.partitioning_scheme = data.type] ELSE r0
        r2 == IF Truthy(data.fstype)
              THEN [r1 EXCEPT !.file_system_type = data.fstype] ELSE r1
        r3 == IF data.noboot
              THEN [r2 EXCEPT !.excluded_mount_points = Append(@, "/boot")] ELSE r2
        r4 == IF data.nohome
              THEN [r3 EXCEPT !.excluded_mount_points = Append(@, "/home")] ELSE r3
        r5 == IF data.noswap
              THEN [r4 EXCEPT !.excluded_mount_points = Append(@, "swap")] ELSE r4
    IN
    IF data.encrypted
    THEN [r5 EXCEPT !.encrypted = TRUE,
                    !.passphrase = data.passphrase,
                    !.cipher = data.cipher,
                    !.luks_version = data.luks_version,
                    !.pbkdf = data.pbkdf,
                    !.pbkdf_memory = data.pbkdf_memory,
                    !.pbkdf_time = data.pbkdf_time,
                    !.pbkdf_iterations = data.pbkdf_iterations,
                    !.escrow_certificate = data.escrowcert,
                    !.backup_passphrase_enabled = data.backuppassphrase]
    ELSE r5

\* process_kickstart publishing the request before the enabled flag.
process_kickstart_request_first(m, data) ==
    LET oid == Alloc(m)
        m1 == set_request([m EXCEPT !.heap[oid] = RequestOf(data)], oid)
    IN set_enabled(m1, data.autopart)

\* AutoPartitioningModule.process_kickstart
process_kickstart(m, data) ==
    LET m1 == set_enabled(m, data.autopart)
        oid == Alloc(m1)
    IN set_request([m1 EXCEPT !.heap[oid] = RequestOf(data)], oid)

\* setup_kickstart writing the stored passphrase to the data.
setup_kickstart_with_passphrase(m, data) ==
    LET r == m.heap[m.request]
        d1 == [data EXCEPT !.autopart = m.enabled,
                           !.fstype = r.file_system_type]
        d2 == IF r.partitioning_scheme # DEFAULT_AUTOPART_TYPE
              THEN [d1 EXCEPT !.type = r.partitioning_scheme] ELSE d1
    IN
    [d2 EXCEPT !.nohome = "/home" \in Range(r.excluded_mount_points),
               !.noboot = "/boot" \in Range(r.excluded_mount_points),
               !.noswap = "swap" \in Range(r.excluded_mount_points),
               !.encrypted = r.encrypted,
               !.passphrase = r.passphrase,
               !.cipher = r.cipher,
               !.luks_version = r.luks_version,
               !.pbkdf = r.pbkdf,
               !.pbkdf_memory = r.pbkdf_memory,
               !.pbkdf_time = r.pbkdf_time,
               !.pbkdf_iterations = r.pbkdf_iterations,
               !.escrowcert = r.escrow_certificate,
               !.backuppassphrase = r.backup_passphrase_enabled]

\* setup_kickstart writing the scheme to the data whatever it is.
setup_kickstart_always_type(m, data) ==
    LET r == m.heap[m.request]
        d1 == [data EXCEPT !.autopart = m.enabled,
                           !.fstype = r.file_system_type]
        d2 == [d1 EXCEPT !.type = r.partitioning_scheme]
    IN
    [d2 EXCEPT !.nohome = "/home" \in Range(r.excluded_mount_points),
               !.noboot = "/boot" \in Range(r.excluded_mount_points),
               !.noswap = "swap" \in Range(r.excluded_mount_points),
               !.encrypted = r.encrypted,
               !.passphrase = "",
               !.cipher = r.cipher,
               !.luks_version = r.luks_version,
               !.pbkdf = r.pbkdf,
               !.pbkdf_memory = r.pbkdf_memory,
               !.pbkdf_time = r.pbkdf_time,
               !.pbkdf_iterations = r.pbkdf_iterations,
               !.escrowcert = r.escrow_certificate,
               !.backuppassphrase = r.backup_passphrase_enabled]

\* AutoPartitioningModule.setup_kickstart: the data object after the call.
setup_kickstart(m, data) ==
    LET r == m.heap[m.request]
        d1 == [data EXCEPT !.autopart = m.enabled,
                           !.fstype = r.file_system_type]
        d2 == IF r.partitioning_scheme # DEFAULT_AUTOPART_TYPE
              THEN [d1 EXCEPT !.type = r.partitioning_scheme] ELSE d1
    IN
    [d2 EXCEPT !.nohome = "/home" \in Range(r.excluded_mount_points),
               !.noboot = "/boot" \in Range(r.excluded_mount_points),
               !.noswap = "swap" \in Range(r.excluded_mount_points),
               !.encrypted = r.encrypted,
               !.passphrase = "",
               !.cipher = r.cipher,
               !.luks_version = r.luks_version,
               !.pbkdf = r.pbkdf,
               !.pbkdf_memory = r.pbkdf_memory,
               !.pbkdf_time = r.pbkdf_time,
               !.pbkdf_iterations = r.pbkdf_iterations,
               !.escrowcert = r.escrow_certificate,
               !.backuppassphrase = r.backup_passphrase_enabled]

\* requires_passphrase looking at the passphrase alone.
requires_passphrase_any(m) ==
    ~Truthy(m.heap[m.request].passphrase)

\* AutoPartitioningModule.requires_passphrase
requires_passphrase(m) ==
    m.heap[m.request].encrypted /\ ~Truthy(m.heap[m.request].passphrase)

\* set_passphrase writing to the current request object, without the copy.
set_passphrase_in_place(m, passphrase) ==
    set_request([m EXCEPT !.heap[m.request].passphrase = passphrase], m.request)

\* set_passphrase building the new request from scratch instead of copying.
set_passphrase_reset(m, passphrase) ==
    LET oid == Alloc(m)
        copy == [PartitioningRequest EXCEPT !.passphrase = passphrase]
    IN set_request([m EXCEPT !.heap[oid] = copy], oid)

\* AutoPartitioningModule.set_passphrase: copy.deepcopy, then set_request.
set_passphrase(m, passphrase) ==
    LET oid == Alloc(m)
        copy == [m.heap[m.request] EXCEPT !.passphrase = passphrase]
    IN set_request([m EXCEPT !.heap[oid] = copy], oid)

\* AutoPartitioningModule.configure_with_task: the task keeps the reference.
configure_with_task(m) ==
    [request |-> m.request, snapshot |-> m.heap[m.request]]

\* The record of a device operation; flag, names and limits are what a query
\* returned.
Last(op, name, target, r) ==
    [op |-> op, name |-> name, target |-> target,
     outcome |-> r.outcome, calls |-> r.calls,
     flag |-> FALSE, names |-> <<>>, limits |-> <<>>]

Asked(op, name, a) ==
    [op |-> op, name |-> name, target |-> 0,
     outcome |-> a.outcome, calls |-> <<>>,
     flag |-> a.flag, names |-> a.names, limits |-> a.limits]

vars == <<storage, last, enabled, request, heap, task, rt, note>>
storageVars == <<storage, last>>
moduleVars == <<enabled, request, heap, task, rt, note>>

(***************************************************************************)
(* The inputs of the operations.                                           *)
(***************************************************************************)
Passphrases == {"", "secret"}

EncryptedRequest ==
    [PartitioningRequest EXCEPT !.encrypted = TRUE,
                                !.passphrase = "secret",
                                !.cipher = "aes-xts-plain64",
                                !.luks_version = "luks2",
                                !.pbkdf = "argon2i",
                                !.pbkdf_memory = 1,
                                !.pbkdf_time = 1,
                                !.escrow_certificate = "file:///cert",
                                !.backup_passphrase_enabled = TRUE]

\* The requests a caller hands to set_request.
ReqInputs ==
    { PartitioningRequest,
      [PartitioningRequest EXCEPT !.partitioning_scheme = 0,
                                  !.file_system_type = "xfs",
                                  !.excluded_mount_points = <<"swap">>],
      [PartitioningRequest EXCEPT !.excluded_mount_points = <<"/home", "/boot">>],
      EncryptedRequest,
      [EncryptedRequest EXCEPT !.passphrase = ""],
      [EncryptedRequest EXCEPT !.encrypted = FALSE],
      [PartitioningRequest EXCEPT !.passphrase = "secret"] }

EncryptedData ==
    [BlankData EXCEPT !.autopart = TRUE,
                      !.encrypted = TRUE,
                      !.passphrase = "secret",
                      !.cipher = "aes-xts-plain64",
                      !.luks_version = "luks2",
                      !.pbkdf = "argon2i",
                      !.pbkdf_memory = 1,
                      !.pbkdf_time = 1,
                      !.pbkdf_iterations = 0,
                      !.escrowcert = "file:///cert",
                      !.backuppassphrase = TRUE]

\* The kickstart data a caller hands to process_kickstart; the last one is
\* "autopart --encrypted" without any other option.
KsInputs ==
    { BlankData,
      [BlankData EXCEPT !.autopart = TRUE, !.type = 0, !.fstype = "xfs",
                        !.noboot = TRUE, !.noswap = TRUE],
      [BlankData EXCEPT !.autopart = TRUE, !.type = DEFAULT_AUTOPART_TYPE,
                        !.nohome = TRUE],
      EncryptedData,
      [EncryptedData EXCEPT !.encrypted = FALSE],
      [BlankData EXCEPT !.autopart = TRUE, !.encrypted = TRUE] }

\* The data objects a caller hands to setup_kickstart: a new one, or one that
\* already carries a scheme.
KsTargets == {BlankData, [BlankData EXCEPT !.type = 3]}

(***************************************************************************)
(* The state machine.                                                      *)
(***************************************************************************)
Self ==
    [enabled |-> enabled, request |-> request, heap |-> heap, task |-> task,
     emitted |-> <<>>]

\* The record of an operation: value, passphrase, given and data are the
\* argument of set_enabled, set_passphrase, set_request and of the kickstart
\* operations; ret is what requires_passphrase returned, out the data object
\* after setup_kickstart.
Note(op, m) ==
    [op |-> op, value |-> FALSE, passphrase |-> "", given |-> PartitioningRequest,
     data |-> BlankData, ret |-> FALSE, out |-> BlankData, emitted |-> m.emitted]

NoRoundTrip == [stage |-> "none", first |-> BlankData]

\* The module state after an operation that ended in m.
Becomes(m) ==
    /\ enabled' = m.enabled
    /\ request' = m.request
    /\ heap' = Collect(m).heap
    /\ task' = m.task

StorageWith(prot) ==
    storage = [devices |-> TreeDevices,
               hidden |-> HiddenDevices,
               children |-> InitChildren,
               protected |-> [n \in Names |-> n \in prot],
               size |-> [n \in Names |-> 3]]

\* AutoPartitioningModule.__init__
InitModule ==
    /\ enabled = FALSE
    /\ request = 1
    /\ heap = [o \in Oids |-> PartitioningRequest]
    /\ task = NoTask
    /\ rt = NoRoundTrip
    /\ note = Note("init", [emitted |-> <<>>])

NoLast ==
    [op |-> "init", name |-> NoDevice, target |-> 0, outcome |-> "ok", calls |-> <<>>,
     flag |-> FALSE, names |-> <<>>, limits |-> <<>>]

\* A new module over a device graph with any of its devices protected.
Init ==
    /\ \E prot \in SUBSET Protectable : StorageWith(prot)
    /\ last = NoLast
    /\ InitModule

\* A new module over a device graph without protected devices.
InitRequest ==
    /\ StorageWith({})
    /\ last = NoLast
    /\ InitModule

RemoveDevice ==
    \E name \in Names, failAt \in 0..MaxFail :
        LET r == remove_device(storage, name, failAt) IN
        /\ storage' = r.storage
        /\ last' = Last("remove_device", name, 0, r)
        /\ UNCHANGED moduleVars

ShrinkDevice ==
    \E name \in ShrinkNames, size \in 0..MaxSize, failAt \in 0..MaxFail, up \in BOOLEAN :
        LET r == shrink_device(storage, name, size, failAt, up) IN
        /\ storage' = r.storage
        /\ last' = Last("shrink_device", name, size, r)
        /\ UNCHANGED moduleVars

IsDevicePartitioned ==
    \E name \in Names :
        /\ last' = Asked("is_device_partitioned", name, is_device_partitioned(storage, name))
        /\ UNCHANGED <<storage, moduleVars>>

GetDevicePartitions ==
    \E name \in Names :
        /\ last' = Asked("get_device_partitions", name, get_device_partitions(storage, name))
        /\ UNCHANGED <<storage, moduleVars>>

IsDeviceResizable ==
    \E name \in Names :
        /\ last' = Asked("is_device_resizable", name, is_device_resizable(storage, name))
        /\ UNCHANGED <<storage, moduleVars>>

GetDeviceSizeLimits ==
    \E name \in Names :
        /\ last' = Asked("get_device_size_limits", name, get_device_size_limits(storage, name))
        /\ UNCHANGED <<storage, moduleVars>>

SetEnabled ==
    \E value \in BOOLEAN :
        LET m == set_enabled(Self, value) IN
        /\ Becomes(m)
        /\ note' = [Note("set_enabled", m) EXCEPT !.value = value]
        /\ rt' = NoRoundTrip
        /\ UNCHANGED storageVars

\* set_request with a request object the caller has just built.
SetRequest ==
    \E r \in ReqInputs :
        LET oid == Alloc(Self)
            m == set_request([Self EXCEPT !.heap[oid] = r], oid)
        IN
        /\ Becomes(m)
        /\ note' = [Note("set_request", m) EXCEPT !.given = r]
        /\ rt' = NoRoundTrip
        /\ UNCHANGED storageVars

SetPassphrase ==
    \E passphrase \in Passphrases :
        LET m == set_passphrase(Self, passphrase) IN
        /\ Becomes(m)
        /\ note' = [Note("set_passphrase", m) EXCEPT !.passphrase = passphrase]
        /\ rt' = NoRoundTrip
        /\ UNCHANGED storageVars

\* The data object the last operation has exported, if it was setup_kickstart.
Exported == IF note.op = "setup_kickstart" THEN {note.out} ELSE {}

\* process_kickstart with parsed data, or with the data object that
\* setup_kickstart has filled in.
ProcessKickstart ==
    \E data \in KsInputs \cup Exported :
        LET m == process_kickstart(Self, data) IN
        /\ Becomes(m)
        /\ note' = [Note("process_kickstart", m) EXCEPT !.data = data]
        /\ rt' = IF rt.stage = "exported" /\ data \in Exported
                 THEN [rt EXCEPT !.stage = "imported"]
                 ELSE NoRoundTrip
        /\ UNCHANGED storageVars

SetupKickstart ==
    \E data \in KsTargets :
        LET out == setup_kickstart(Self, data) IN
        /\ note' = [Note("setup_kickstart", Self) EXCEPT !.data = data, !.out = out]
        /\ rt' = IF data # BlankData THEN NoRoundTrip
                 ELSE IF rt.stage = "imported"
                 THEN [rt EXCEPT !.stage = "reexported"]
                 ELSE [stage |-> "exported", first |-> out]
        /\ UNCHANGED <<enabled, request, heap, task, storageVars>>

RequiresPassphrase ==
    /\ note' = [Note("requires_passphrase", Self) EXCEPT !.ret = requires_passphrase(Self)]
    /\ rt' = NoRoundTrip
    /\ UNCHANGED <<enabled, request, heap, task, storageVars>>

ConfigureWithTask ==
    LET m == [Self EXCEPT !.task = configure_with_task(Self)] IN
    /\ Becomes(m)
    /\ note' = Note("configure_with_task", m)
    /\ rt' = NoRoundTrip
    /\ UNCHANGED storageVars

\* The device operations, on any initial graph.
Next ==
    \/ RemoveDevice
    \/ ShrinkDevice
    \/ IsDevicePartitioned
    \/ GetDevicePartitions
    \/ IsDeviceResizable
    \/ GetDeviceSizeLimits

Spec == Init /\ [][Next]_vars

\* The operations on the module's own state.
NextRequest ==
    \/ SetEnabled
    \/ SetRequest
    \/ SetPassphrase
    \/ ProcessKickstart
    \/ SetupKickstart
    \/ RequiresPassphrase
    \/ ConfigureWithTask

SpecRequest == InitRequest /\ [][NextRequest]_vars

(***************************************************************************)
(* Properties of the device operations (specification Spec).               *)
(***************************************************************************)
\* The step is a call of op on a name that resolves in the graph before it.
Called(op) ==
    /\ last'.op = op
    /\ get_device(storage, last'.name) # NoDevice

\* Every device of the graph, hidden ones included.
AllDevices(g) == g.devices \cup g.hidden

UnprotectedChildren(g, d) == SelectSeq(g.children[d], LAMBDA c : ~g.protected[c])
HasProtectedChild(g, d) == \E c \in Range(g.children[d]) : g.protected[c]

C2_OnlyUnprotectedChildrenRemoved ==
    [][(Called("remove_device") /\ ~storage.protected[last'.name]
            /\ HasProtectedChild(storage, last'.name))
       => LET d == last'.name
              todo == UnprotectedChildren(storage, d)
          IN
          /\ Len(last'.calls) <= Len(todo)
          /\ \A i \in DOMAIN last'.calls :
                /\ last'.calls[i].call = "recursive_remove"
                /\ last'.calls[i].dev = todo[i]
          /\ d \in AllDevices(storage')
          /\ \A c \in Range(storage.children[d]) :
                storage.protected[c] => c \in AllDevices(storage')
          /\ last'.outcome # "EngineError"
                => /\ last'.outcome = "ok"
                   /\ Len(last'.calls) = Len(todo)
                   /\ AllDevices(storage') = AllDevices(storage) \
                          UNION {Subtree(storage, c) : c \in Range(todo)}
                   /\ todo = <<>> => storage' = storage]_vars

\* Two unprotected children were removed next to a protected one that stays.
C2_Witness ==
    /\ last.op = "remove_device"
    /\ last.outcome = "ok"
    /\ Len(last.calls) = 2
    /\ last.name \in storage.devices
    /\ HasProtectedChild(storage, last.name)
    /\ \A i \in DOMAIN last.calls : last.calls[i].dev \notin AllDevices(storage)

\* C3: remove_device on an unprotected device without protected direct child
\* makes exactly one engine call, the cascading remove of the device itself;
\* when the engine performs it, the device and its whole subtree are gone, and
\* for a childless device the graph is the graph before without that device.
C3_DeviceAndSubtreeRemoved ==
    [][(Called("remove_device") /\ ~storage.protected[last'.name]
            /\ ~HasProtectedChild(storage, last'.name))
       => LET d == last'.name IN
          /\ Len(last'.calls) = 1
          /\ last'.calls[1].call = "recursive_remove"
          /\ last'.calls[1].dev = d
          /\ last'.outcome # "EngineError"
                => /\ last'.outcome = "ok"
                   /\ AllDevices(storage') = AllDevices(storage) \ Subtree(storage, d)
                   /\ storage.children[d] = <<>>
                        => storage' =
                             [storage EXCEPT
                                !.devices = @ \ {d},
                                !.hidden = @ \ {d},
                                !.children = [n \in Names |->
                                    SelectSeq(@[n], LAMBDA c : c # d)]]]_vars

\* A device with a subtree below it was removed with one engine call.
C3_Witness ==
    /\ last.op = "remove_device"
    /\ last.outcome = "ok"
    /\ last.name = "sda2"
    /\ last.calls = <<Call("recursive_remove", "sda2", 0, 0, TRUE)>>
    /\ {"sda2", "sda5"} \cap AllDevices(storage) = {}
    /\ {"sda", "sda1", "sda3"} \subseteq AllDevices(storage)

\* C4 as claimed: shrink_device on a resolvable device with a target not below
\* the device's size makes no engine call, leaves the size and returns normally.
C4_AsClaimed ==
    [][(Called("shrink_device") /\ last'.target >= storage.size[last'.name])
       => /\ last'.calls = <<>>
          /\ storage' = storage
          /\ last'.outcome = "ok"]_vars

\* C4, amended: shrink_device on a resolvable device with a target not below
\* the device's size makes no engine call and leaves the size; it returns
\* normally if the device is unprotected and raises ProtectedDeviceError if it
\* is protected.
C4_NoEngineCallWhenSmallEnough ==
    [][(Called("shrink_device") /\ last'.target >= storage.size[last'.name])
       => /\ last'.calls = <<>>
          /\ storage' = storage
          /\ last'.outcome = IF storage.protected[last'.name]
                             THEN "ProtectedDeviceError" ELSE "ok"]_vars

\* A shrink to the device's own size returned without an engine call.
C4_Witness ==
    /\ last.op = "shrink_device"
    /\ last.outcome = "ok"
    /\ last.calls = <<>>
    /\ get_device(storage, last.name) # NoDevice
    /\ last.target = storage.size[last.name]

\* C5: shrink_device below the current size of a protected device raises
\* ProtectedDeviceError before any alignment or resize call; the size and the
\* graph stay as they were.
C5_ProtectedDeviceNotShrunk ==
    [][(Called("shrink_device") /\ storage.protected[last'.name]
            /\ last'.target < storage.size[last'.name])
       => /\ last'.outcome = "ProtectedDeviceError"
          /\ last'.calls = <<>>
          /\ storage' = storage]_vars

\* A shrink of a protected device below its size was refused.
C5_Witness ==
    /\ last.op = "shrink_device"
    /\ last.outcome = "ProtectedDeviceError"
    /\ storage.protected[last.name]
    /\ last.target < storage.size[last.name]

\* C6: shrink_device below the current size of an unprotected device first
\* asks for the aligned value of the target and then, unless the alignment
\* fails, calls the engine's resize exactly once, with the aligned value and
\* never with the raw target; the resize is always preceded by the alignment.
C6_AlignedBeforeResize ==
    [][(Called("shrink_device") /\ ~storage.protected[last'.name]
            /\ last'.target < storage.size[last'.name])
       => LET calls == last'.calls IN
          /\ Len(calls) \in {1, 2}
          /\ calls[1].call = "align_target_size"
          /\ calls[1].dev = last'.name
          /\ calls[1].arg = last'.target
          /\ calls[1].ok <=> Len(calls) = 2
          /\ Len(calls) = 2
                => /\ calls[2].call = "resize_device"
                   /\ calls[2].dev = last'.name
                   /\ calls[2].arg = calls[1].ret
                   /\ calls[2].arg % AlignUnit = 0
          /\ last'.outcome = "ok"
                => /\ Len(calls) = 2
                   /\ storage'.size[last'.name] = calls[1].ret]_vars

\* A device was resized to an aligned size that differs from the target given.
C6_Witness ==
    /\ last.op = "shrink_device"
    /\ last.outcome = "ok"
    /\ Len(last.calls) = 2
    /\ last.calls[1].arg # last.calls[1].ret
    /\ storage.size[last.name] = last.calls[2].arg

(***************************************************************************)
(* Properties of the module's own state (specification SpecRequest).       *)
(***************************************************************************)
\* The request the module holds.
Current == heap[request]

\* What the observers of a signal have read when they saw enabled e and
\* request r: one record per observer, in connection order.
Delivery(signal, e, r) ==
    [i \in 1..NumObservers |->
        [signal |-> signal, observer |-> i, enabled |-> e, request |-> r]]

\* C7: the passphrase is write-only: setup_kickstart leaves an empty
\* passphrase in the data whatever passphrase is stored, and module states
\* that differ only in the stored passphrase export the same data.
C7_PassphraseWriteOnly ==
    /\ note.op = "setup_kickstart"
          => /\ note.out = setup_kickstart(Self, note.data)
             /\ note.out.passphrase = ""
    /\ \A p \in Passphrases, data \in KsTargets :
          setup_kickstart([Self EXCEPT !.heap[request].passphrase = p], data)
              = setup_kickstart(Self, data)

\* An encrypted request with a stored passphrase was exported.
C7_Witness ==
    /\ note.op = "setup_kickstart"
    /\ Current.encrypted
    /\ Current.passphrase = "secret"
    /\ note.out.encrypted

\* C8: exporting into a blank data object, importing that data and exporting
\* again into a blank data object gives data equal, field by field, to the
\* first export, the passphrase empty in both.
C8_RoundTrip ==
    rt.stage = "reexported"
        => /\ note.out = rt.first
           /\ note.out.passphrase = ""
           /\ rt.first.passphrase = ""

\* C9: requires_passphrase() is true exactly when the current request is
\* encrypted with an empty passphrase: false for an unencrypted request
\* whatever the passphrase, false after set_passphrase(p) with p non-empty on
\* an encrypted request, and the same for either value of the enabled flag.
C9_RequiresPassphrase ==
    /\ requires_passphrase(Self) <=> (Current.encrypted /\ Current.passphrase = "")
    /\ note.op = "requires_passphrase" => note.ret = requires_passphrase(Self)
    /\ ~Current.encrypted => ~requires_passphrase(Self)
    /\ (note.op = "set_passphrase" /\ note.passphrase # "" /\ Current.encrypted)
          => ~requires_passphrase(Self)
    /\ \A e \in BOOLEAN :
          requires_passphrase([Self EXCEPT !.enabled = e]) = requires_passphrase(Self)

\* requires_passphrase() answered no for an unencrypted request without
\* passphrase.
C9_Witness ==
    /\ note.op = "requires_passphrase"
    /\ ~note.ret
    /\ ~Current.encrypted
    /\ Current.passphrase = ""

\* C10: the request object a task was constructed with keeps the field values
\* it had then, whatever module operations follow.
C10_TaskSnapshotKept ==
    task # NoTask => heap[task.request] = task.snapshot

\* After a task was constructed, set_passphrase gave the module a request
\* that differs from the task's.
C10_Witness ==
    /\ task # NoTask
    /\ note.op = "set_passphrase"
    /\ request # task.request
    /\ Current.passphrase # task.snapshot.passphrase

\* C11: set_passphrase(p) makes a new request object the current one; it is
\* equal to the previous request in every field except the passphrase, which is
\* p; the previous object keeps its fields, the enabled flag and the device
\* graph stay as they were, and request_changed is emitted exactly once.
C11_PassphraseOnCopy ==
    [][note'.op = "set_passphrase"
       => LET m == set_passphrase(Self, note'.passphrase) IN
          /\ request' # request
          /\ heap'[request'] = [heap[request] EXCEPT !.passphrase = note'.passphrase]
          /\ \A f \in DOMAIN PartitioningRequest \ {"passphrase"} :
                heap'[request'][f] = heap[request][f]
          /\ m.heap[request] = heap[request]
          /\ task'.request = request => heap'[request] = heap[request]
          /\ enabled' = enabled
          /\ task' = task
          /\ storage' = storage
          /\ note'.emitted = Delivery("request_changed", enabled, heap'[request'])]_vars

\* set_passphrase gave a new passphrase to an encrypted request that has
\* fields away from their defaults.
C11_Witness ==
    /\ note.op = "set_passphrase"
    /\ note.passphrase = ""
    /\ Current = [EncryptedRequest EXCEPT !.passphrase = ""]
    /\ enabled

(***************************************************************************)
(* Properties of name resolution and of the queries (specification Spec).  *)
(***************************************************************************)
\* The operations that take a device name.
NameOps ==
    {"remove_device", "shrink_device", "is_device_partitioned",
     "get_device_partitions", "is_device_resizable", "get_device_size_limits"}

\* C12: each operation that takes a device name raises UnknownDeviceError when
\* the engine has no device, hidden ones included, under that name; it does so
\* before any engine call and leaves the graph and the module state as they
\* were; a name of a hidden device resolves.
C12_UnknownDeviceRaised ==
    [][last'.op \in NameOps
       => /\ last'.name \notin AllDevices(storage)
                => /\ last'.outcome = "UnknownDeviceError"
                   /\ last'.calls = <<>>
                   /\ last'.names = <<>> /\ last'.limits = <<>> /\ ~last'.flag
                   /\ storage' = storage
                   /\ UNCHANGED moduleVars
          /\ last'.name \in AllDevices(storage)
                => last'.outcome # "UnknownDeviceError"
          /\ last'.name \in storage.hidden
                => last'.outcome # "UnknownDeviceError"]_vars

\* A query named a device that an earlier remove_device has taken out of the
\* graph, next to the hidden disk that is still there.
C12_Witness ==
    /\ last.op = "get_device_partitions"
    /\ last.name = "sda5"
    /\ last.outcome = "UnknownDeviceError"
    /\ "sdb" \in storage.hidden

\* C13: get_device_partitions returns the empty sequence when the device is not
\* a disk that is partitioned in a supported format; otherwise it returns, in
\* child order, the direct children that are partition devices and are not an
\* extended partition with logical partitions (children sda1 and the extended
\* sda2 with a logical partition give sda1 alone); it never changes the graph.
C13_PartitionsListed ==
    [][(Called("get_device_partitions"))
       => LET d == last'.name
              listed(c) == /\ c \in PartitionDevices
                           /\ ~(c \in ExtendedPartitions
                                  /\ logical_partitions(storage, c) # <<>>)
          IN
          /\ last'.outcome = "ok"
          /\ ~(d \in Disks /\ d \in PartitionedDevices /\ d \in SupportedFormats)
                => last'.names = <<>>
          /\ (d \in Disks /\ d \in PartitionedDevices /\ d \in SupportedFormats)
                => /\ last'.names = SelectSeq(storage.children[d], listed)
                   /\ Range(last'.names) \subseteq Range(storage.children[d])
          /\ (d = "sda" /\ storage.children["sda"] = <<"sda1", "sda2", "sda3">>
                /\ storage.children["sda2"] # <<>>)
                => last'.names = <<"sda1">>
          /\ storage' = storage
          /\ last'.calls = <<>>]_vars

\* The partitions of sda were listed while its extended partition carried a
\* logical partition: sda1 alone.
C13_Witness ==
    /\ last.op = "get_device_partitions"
    /\ last.name = "sda"
    /\ last.names = <<"sda1">>
    /\ storage.children["sda"] = <<"sda1", "sda2", "sda3">>
    /\ storage.children["sda2"] = <<"sda5">>

\* C15: protection is looked at one level deep only: for an unprotected device
\* whose direct children are all unprotected while a deeper descendant is
\* protected, remove_device removes no child on its own and makes exactly one
\* engine call, the cascading remove of the device itself; what is removed is
\* the engine's decision.
C15_ProtectionOneLevelDeep ==
    [][(Called("remove_device") /\ ~storage.protected[last'.name]
            /\ ~HasProtectedChild(storage, last'.name)
            /\ \E x \in Subtree(storage, last'.name) : storage.protected[x])
       => LET d == last'.name IN
          /\ last'.calls \in
                {<<Call("recursive_remove", d, 0, 0, TRUE)>>,
                 <<Call("recursive_remove", d, 0, 0, FALSE)>>}
          /\ last'.calls[1].ok
                => last'.outcome = "ok" /\ storage' = recursive_remove(storage, d)
          /\ ~last'.calls[1].ok
                => last'.outcome = "EngineError" /\ storage' = storage]_vars

\* remove_device on sda, with sda5 below sda2 protected and no partition of
\* sda protected, made the one engine call on sda.
C15_Witness ==
    /\ last.op = "remove_device"
    /\ last.name = "sda"
    /\ storage.protected["sda5"]
    /\ \A c \in {"sda", "sda1", "sda2", "sda3"} : ~storage.protected[c]
    /\ Len(last.calls) = 1
    /\ last.calls[1].dev = "sda"

\* C18: an engine call that fails inside remove_device or shrink_device ends
\* the operation with the engine's error and no further engine call is made;
\* in the partial branch of remove_device the children after the failing one
\* are not attempted and the children removed before it stay removed.
C18_EngineErrorEndsOperation ==
    [][last'.op \in {"remove_device", "shrink_device"}
       => LET calls == last'.calls
              n == Len(calls)
          IN
          /\ last'.outcome = "EngineError" <=> \E i \in 1..n : ~calls[i].ok
          /\ last'.outcome = "EngineError"
                => /\ ~calls[n].ok
                   /\ \A i \in 1..(n - 1) : calls[i].ok
                   /\ last'.op = "shrink_device" => storage' = storage
                   /\ last'.op = "remove_device"
                        => /\ AllDevices(storage') = AllDevices(storage) \
                                 UNION {Subtree(storage, calls[i].dev) : i \in 1..(n - 1)}
                           /\ calls[n].dev \in AllDevices(storage')
                           /\ \A c \in Range(storage.children[last'.name]) :
                                 (\A i \in 1..(n - 1) : calls[i].dev # c)
                                     => c \in AllDevices(storage')]_vars

\* The second recursive_remove of the partial branch failed: the first child
\* is gone, the second is still there.
C18_Witness ==
    /\ last.op = "remove_device"
    /\ last.outcome = "EngineError"
    /\ Len(last.calls) = 2
    /\ last.calls[1].ok /\ ~last.calls[2].ok
    /\ last.calls[1].dev \notin AllDevices(storage)
    /\ last.calls[2].dev \in AllDevices(storage)

\* C20: shrink_device never grows a device: whatever way the engine rounds
\* the target, down or up, the size passed to resize_device is strictly below
\* the size the device has, and no shrink_device leaves a device larger than
\* it was, so that its size stays at or below the initial one.
C20_ShrinkNeverGrows ==
    [][last'.op = "shrink_device"
       => /\ \A i \in DOMAIN last'.calls :
                last'.calls[i].call = "resize_device"
                    => last'.calls[i].arg < storage.size[last'.name]
          /\ \A n \in Names : storage'.size[n] <= storage.size[n]]_vars

(***************************************************************************)
(* Properties of the kickstart operations and of the signals               *)
(* (specification SpecRequest).                                            *)
(***************************************************************************)
\* C14: setup_kickstart writes the partitioning scheme to the data only if it
\* differs from the default scheme; for a request with the default scheme the
\* type field of the data is left as it was, so that a new data object keeps
\* no scheme.
C14_DefaultSchemeNotExported ==
    note.op = "setup_kickstart"
        => /\ Current.partitioning_scheme # DEFAULT_AUTOPART_TYPE
                => note.out.type = Current.partitioning_scheme
           /\ Current.partitioning_scheme = DEFAULT_AUTOPART_TYPE
                => note.out.type = note.data.type
           /\ (Current.partitioning_scheme = DEFAULT_AUTOPART_TYPE
                    /\ note.data = BlankData)
                => note.out.type = KsNone

\* A request with the default scheme was exported into data that carried
\* another scheme, which is still there.
C14_Witness ==
    /\ note.op = "setup_kickstart"
    /\ Current.partitioning_scheme = DEFAULT_AUTOPART_TYPE
    /\ note.data.type = 3
    /\ note.out.type = 3

\* C16: set_enabled and set_request store the new value first and then emit
\* their signal exactly once, inside the call, also when the new value equals
\* the old one: every observer has run once, in connection order, when the
\* setter returns, and each has read the new value from the getters.
C16_StoredBeforeEmitted ==
    /\ note.op = "set_enabled"
          => /\ enabled = note.value
             /\ note.emitted = Delivery("enabled_changed", note.value, Current)
    /\ note.op = "set_request"
          => /\ Current = note.given
             /\ note.emitted = Delivery("request_changed", enabled, note.given)
    /\ \A v \in BOOLEAN :
          set_enabled(Self, v).emitted = Delivery("enabled_changed", v, Current)
    /\ set_request(Self, request).emitted
          = Delivery("request_changed", enabled, Current)

\* set_enabled(True) has returned and the last observer of enabled_changed has
\* read True.
C16_Witness ==
    /\ note.op = "set_enabled"
    /\ note.value
    /\ Len(note.emitted) = NumObservers
    /\ note.emitted[NumObservers].observer = NumObservers
    /\ note.emitted[NumObservers].enabled

\* The mount points process_kickstart excludes for the flags of the data.
ExcludedFor(d) ==
    (IF d.noboot THEN <<"/boot">> ELSE <<>>)
        \o (IF d.nohome THEN <<"/home">> ELSE <<>>)
        \o (IF d.noswap THEN <<"swap">> ELSE <<>>)

\* C17: process_kickstart builds a new request that is a function of the data
\* alone, whatever request the module held: a field of the data that is absent
\* or false leaves the field of the request at its default, and the encryption
\* fields are taken from the data only when its encrypted flag is set.
C17_FreshRequestFromData ==
    /\ note.op = "process_kickstart"
          => LET d == note.data
                 r == Current
                 dflt == PartitioningRequest
             IN
             /\ r.partitioning_scheme =
                    IF d.type # KsNone THEN d.type ELSE dflt.partitioning_scheme
             /\ r.file_system_type =
                    IF Truthy(d.fstype) THEN d.fstype ELSE dflt.file_system_type
             /\ r.excluded_mount_points = ExcludedFor(d)
             /\ r.encrypted = d.encrypted
             /\ r.passphrase = IF d.encrypted THEN d.passphrase ELSE dflt.passphrase
             /\ r.cipher = IF d.encrypted THEN d.cipher ELSE dflt.cipher
             /\ r.luks_version =
                    IF d.encrypted /\ d.luks_version # StrNone
                    THEN d.luks_version ELSE dflt.luks_version
             /\ r.pbkdf =
                    IF d.encrypted /\ d.pbkdf # StrNone THEN d.pbkdf ELSE dflt.pbkdf
             /\ r.pbkdf_memory =
                    IF d.encrypted /\ d.pbkdf_memory # KsNone
                    THEN d.pbkdf_memory ELSE dflt.pbkdf_memory
             /\ r.pbkdf_time =
                    IF d.encrypted /\ d.pbkdf_time # KsNone
                    THEN d.pbkdf_time ELSE dflt.pbkdf_time
             /\ r.pbkdf_iterations =
                    IF d.encrypted /\ d.pbkdf_iterations # KsNone
                    THEN d.pbkdf_iterations ELSE dflt.pbkdf_iterations
             /\ r.escrow_certificate =
                    IF d.encrypted THEN d.escrowcert ELSE dflt.escrow_certificate
             /\ r.backup_passphrase_enabled =
                    IF d.encrypted THEN d.backuppassphrase
                    ELSE dflt.backup_passphrase_enabled
    /\ \A d \in KsInputs, r \in ReqInputs, e \in BOOLEAN :
          LET m1 == process_kickstart(Self, d)
              m2 == process_kickstart([Self EXCEPT !.heap[request] = r,
                                                   !.enabled = e], d)
          IN m1.heap[m1.request] = m2.heap[m2.request]

\* C19: process_kickstart emits exactly one enabled_changed and then exactly
\* one request_changed; an observer that reads the request sees the complete
\* previous request or the complete new one, never a partly filled one; while
\* enabled_changed is delivered the getters return the new enabled value
\* together with the previous request.
C19_EnabledThenRequest ==
    [][note'.op = "process_kickstart"
       => LET old == heap[request]
              new == heap'[request']
          IN
          /\ note'.emitted =
                Delivery("enabled_changed", note'.data.autopart, old)
                    \o Delivery("request_changed", note'.data.autopart, new)
          /\ enabled' = note'.data.autopart
          /\ \A i \in DOMAIN note'.emitted :
                note'.emitted[i].request \in {old, new}]_vars

\* process_kickstart replaced a request by a different one and changed the
\* enabled flag: the observers of enabled_changed have read the previous
\* request, those of request_changed the new one.
C19_Witness ==
    /\ note.op = "process_kickstart"
    /\ Len(note.emitted) = 2 * NumObservers
    /\ note.emitted[1].signal = "enabled_changed"
    /\ note.emitted[1].enabled
    /\ note.emitted[1].request # Current
    /\ note.emitted[2 * NumObservers].signal = "request_changed"
    /\ note.emitted[2 * NumObservers].request = Current
    /\ Current.encrypted
====